---- MODULE Spec2Model ----
(***************************************************************************)
(* cronjob-runner: RunJobFromCronJob / WaitForJob (runner/run.go), the Job *)
(* and Pod informer event handlers (internal/jobs, internal/pods) and the  *)
(* lifetime of the log tailers (internal/logs), as one state machine.      *)
(*                                                                         *)
(* Goroutines of the model:                                                *)
(*   main         RunJobFromCronJob calling WaitForJob (pc, td)            *)
(*   job handler  the Job informer's listener calling OnAdd/OnUpdate (jobH)*)
(*   pod handler  the Pod informer's listener calling OnAdd/OnUpdate (podH)*)
(*   loop         the goroutine ranging over containerStartedCh (loop)     *)
(*   tails        one goroutine per received ContainerStartedEvent (tails) *)
(* The unbuffered channels are rendezvous: a send completes in the same    *)
(* step as the matching receive.                                           *)
(***************************************************************************)
EXTENDS Integers, Sequences, FiniteSets, TLC

\* ------------------------------------------------------------------ bounds
MaxJobUpdates == 2      \* Updated notifications of the Job delivered in one run
MaxPodUpdates == 2      \* Updated notifications of the Pod delivered in one run
MaxConditions == 2      \* length of Job.Status.Conditions

\* ------------------------------------------------------------- data types
JobComplete == "Complete"
JobFailed == "Failed"
JobSuccessCriteriaMet == "SuccessCriteriaMet"
JobConditionTypes == {JobComplete, JobFailed, JobSuccessCriteriaMet}
ConditionTrue == "True"
ConditionFalse == "False"
ConditionStatuses == {ConditionTrue, ConditionFalse}

JobCondition == [Type : JobConditionTypes, Status : ConditionStatuses]

\* Job.Status.Conditions: a list with at most one entry per condition type.
JobConditionLists ==
    UNION { { s \in [1..n -> JobCondition] :
                \A i, j \in 1..n : i # j => s[i].Type # s[j].Type } :
            n \in 0..MaxConditions }

\* The Jobs the API server may hand back from Create (namespace of the
\* CronJob, generated name).
Jobs == { [Namespace |-> "ns1", Name |-> "cj-x1"],
          [Namespace |-> "ns2", Name |-> "cj-x2"] }
NoJob == [Namespace |-> "", Name |-> ""]

PodName == "pod-1"
InitContainers == <<>>
AppContainers == <<"app">>
ContainerNames == {"app"}
ContainerStates == {"Waiting", "Running", "Terminated"}
\* Pod.Status.{InitContainerStatuses, ContainerStatuses} by container name.
PodStatuses == [ContainerNames -> ContainerStates]
AllWaiting == [c \in ContainerNames |-> "Waiting"]

\* ----------------------------------------------------------------- errors
\* An error is its %w chain, outermost layer first; nil is the empty chain.
Nil == <<>>
Msg(text) == [kind |-> "errorString", text |-> text, ns |-> "", name |-> ""]
ApiError == <<Msg("api")>>
ContextCanceled == <<[kind |-> "context.Canceled", text |-> "", ns |-> "", name |-> ""]>>
Errorf(text, err) == <<Msg(text)>> \o err

JobFailedError(job) ==
    <<[kind |-> "JobFailedError", text |-> "", ns |-> job.Namespace, name |-> job.Name]>>

\* errors.As(err, &JobFailedError{})
IsJobFailedError(err) == \E i \in 1..Len(err) : err[i].kind = "JobFailedError"

VARIABLES
    secretEnv,            \* opts.SecretEnv != nil
    secret,               \* the ephemeral Secret: its state in the cluster ("none",
                          \* "created", "owned", "deleted"), the name held by the
                          \* variable `secret`, and the Delete calls made for it
    pc,                   \* position of the main goroutine
    td,                   \* index of the next step of WaitForJob's deferred teardown
    job,                  \* the Job created from the CronJob
    result,               \* the error WaitForJob returns (set at its return statement)
    rjResult,             \* the error RunJobFromCronJob returns
    ctxDone,              \* ctx.Done() is closed
    stopChClosed,         \* close(stopCh) has run
    containerStartedChClosed,
    jobFinishedChClosed,
    panicked,             \* a goroutine sent on a closed channel
    jobInf,               \* Job informer: "none", "running", "stopped" (Shutdown returned)
    podInf,               \* Pod informer: likewise
    jobSeen,              \* the Job informer has delivered OnAdd
    podSeen,              \* the Pod informer has delivered OnAdd
    podStatus,            \* the Pod informer's cached container states
    jobH,                 \* Job event handler: [pc, val]
    podH,                 \* Pod event handler: [pc, pending]
    loop,                 \* spawning loop: "none", "range", "exited"
    tails,                \* the spawned Tail goroutines, in spawn order: [ev, st]
    nJobUpd,              \* Updated notifications of the Job delivered
    nPodUpd,              \* Updated notifications of the Pod delivered
    received,             \* what the select received from jobFinishedCh
    jobEmitted,           \* the values the Job handler has put up for sending
    exitStatus,           \* the exit status of the process, -1 while it runs
    jobLast,              \* the last notification given to the Job handler: its kind and
                          \* the terminal conditions it carried with status True
    podTrace,             \* pods tracker alone: the Pod snapshots given to its handler
    podEvents,            \* pods tracker alone: the events sent for each Updated snapshot
    containerLog,         \* tailer alone: the log of the container, [time, line] per entry
    tailPc,               \* tailer alone: position of the Tail goroutine
    nResume,              \* tailer alone: calls of t.resume before ctx was done
    sinceTime,            \* tailer alone: SinceTime of the stream last opened
    opened,               \* tailer alone: the bytes the stream last opened delivers in all
    stream,               \* tailer alone: the bytes of the open stream not yet read
    streamEnd,            \* tailer alone: what follows the last byte: "eof" or "error"
    line,                 \* tailer alone: the string ReadString returned
    readErr,              \* tailer alone: the error ReadString returned
    lastLogTime,          \* tailer alone: t.lastLogTime (NilTime for nil)
    sink,                 \* tailer alone: the records given to tlog.Handle
    sinkAtOpen,           \* tailer alone: Len(sink) when the stream was opened
    resumeErr,            \* tailer alone: what the last call of t.resume returned
    deadline,             \* tailer alone: ctx.Err() is context.DeadlineExceeded
    jobSpec,              \* job creation alone: cronJob.Spec.JobTemplate.Spec
    env,                  \* job creation alone: opts.Env
    newSpec,              \* job creation alone: the Spec of the Job to create
    cronJob,              \* job creation alone: the CronJob apart from the template's Spec
    optsSecretEnv,        \* job creation alone: opts.SecretEnv
    jobToCreate,          \* job creation alone: the Job handed to Create
    oldConditions,        \* jobs handler alone: oldJob.Status.Conditions
    newConditions,        \* jobs handler alone: newJob.Status.Conditions
    notified              \* jobs handler alone: what the call of OnUpdate did

vars == <<secretEnv, secret, pc, td, job, result, rjResult, ctxDone, stopChClosed,
          containerStartedChClosed, jobFinishedChClosed, panicked, jobInf, podInf,
          jobSeen, podSeen, podStatus, jobH, podH, loop, tails, nJobUpd, nPodUpd,
          received, jobEmitted, jobLast, exitStatus, podTrace, podEvents, containerLog, tailPc,
          nResume, sinceTime, opened, stream, streamEnd, line, readErr, lastLogTime, sink,
          sinkAtOpen, resumeErr, deadline, jobSpec, env, newSpec, cronJob, optsSecretEnv,
          jobToCreate, oldConditions, newConditions, notified>>

\* The variables of the components that are also run on their own.
trackerVars == <<podTrace, podEvents>>
tailerVars == <<containerLog, tailPc, nResume, sinceTime, opened, stream, streamEnd, line,
                readErr, lastLogTime, sink, sinkAtOpen, resumeErr, deadline>>
createVars == <<jobSpec, env, newSpec, cronJob, optsSecretEnv, jobToCreate>>
jobUpdateVars == <<oldConditions, newConditions, notified>>
componentVars == <<trackerVars, tailerVars, createVars, jobUpdateVars>>

mainVars == <<secretEnv, secret, pc, td, job, result, rjResult>>
chanVars == <<stopChClosed, containerStartedChClosed, jobFinishedChClosed>>
jobInfVars == <<jobInf, jobSeen, jobH, nJobUpd, jobEmitted>>
NoNotification == [kind |-> "none", terminal |-> {}]
podInfVars == <<podInf, podSeen, podStatus, podH, nPodUpd>>

IdleJobH == [pc |-> "idle", val |-> ""]
IdlePodH == [pc |-> "idle", pending |-> <<>>]

\* The state before RunJobFromCronJob is called.
RunInit ==
    /\ secret = [state |-> "none", name |-> "", deletes |-> <<>>]
    /\ pc = "rj_get"
    /\ td = 0
    /\ job = NoJob
    /\ result = Nil
    /\ rjResult = Nil
    /\ ctxDone = FALSE
    /\ stopChClosed = FALSE
    /\ containerStartedChClosed = FALSE
    /\ jobFinishedChClosed = FALSE
    /\ panicked = FALSE
    /\ jobInf = "none"
    /\ podInf = "none"
    /\ jobSeen = FALSE
    /\ podSeen = FALSE
    /\ podStatus = AllWaiting
    /\ jobH = IdleJobH
    /\ podH = IdlePodH
    /\ loop = "none"
    /\ tails = <<>>
    /\ nJobUpd = 0
    /\ nPodUpd = 0
    /\ received = "none"
    /\ jobEmitted = <<>>
    /\ jobLast = NoNotification
    /\ exitStatus = -1

TrackerIdle == podTrace = <<>> /\ podEvents = <<>>

\* metav1.Time values are positive; a nil *metav1.Time is NilTime.
NilTime == 0

\* var t tailer, before the first call of t.resume
TailerNew ==
    /\ tailPc = "resume"
    /\ nResume = 0
    /\ sinceTime = NilTime
    /\ opened = <<>>
    /\ stream = <<>>
    /\ streamEnd = "eof"
    /\ line = <<>>
    /\ readErr = "nil"
    /\ lastLogTime = NilTime
    /\ sink = <<>>
    /\ sinkAtOpen = 0
    /\ resumeErr = "none"
    /\ deadline = FALSE

TailerIdle == containerLog = <<>> /\ TailerNew

\* A JobSpec without containers: no Job has been built.
NoJobSpec == [Containers |-> <<>>, InitContainers |-> <<>>]
\* A nil map[string]string.
NoEnv == [name \in {} |-> ""]

\* No CronJob and no Job to create.
NoCronJob ==
    [Namespace |-> "", Name |-> <<>>, UID |-> "", Labels |-> NoEnv,
     TemplateLabels |-> NoEnv, TemplateAnnotations |-> NoEnv]
NoJobToCreate ==
    [Namespace |-> "", GenerateName |-> <<>>, OwnerReferences |-> <<>>,
     Labels |-> NoEnv, Annotations |-> NoEnv, Spec |-> NoJobSpec]

\* No notification given to the jobs handler.
NotNotified == [called |-> FALSE]
JobUpdateIdle == oldConditions = <<>> /\ newConditions = <<>> /\ notified = NotNotified

CreateIdle ==
    /\ jobSpec = NoJobSpec /\ env = NoEnv /\ newSpec = NoJobSpec
    /\ cronJob = NoCronJob /\ optsSecretEnv = <<>> /\ jobToCreate = NoJobToCreate

Init ==
    /\ secretEnv \in BOOLEAN
    /\ RunInit
    /\ TrackerIdle
    /\ TailerIdle
    /\ CreateIdle
    /\ JobUpdateIdle

\* ---------------------------------------------------------------- context
\* The signal handler of signal.NotifyContext cancels ctx.
Cancel ==
    /\ ~ctxDone
    /\ pc \notin {"rj_ret", "exited"}
    /\ ctxDone' = TRUE
    /\ UNCHANGED <<componentVars, exitStatus, mainVars, chanVars, panicked, jobInfVars, podInfVars, loop, tails,
                   received, jobLast>>

\* ------------------------------------------------------ RunJobFromCronJob
\* The error RunJobFromCronJob returns for the error err of its body: with
\* SecretEnv set the body is runJobFromCronJobWithSecret, whose error is wrapped.
RunJobFromCronJobResult(err) ==
    IF secretEnv /\ err # Nil THEN Errorf("runJobFromCronJobWithSecret", err) ELSE err

\* clientset.BatchV1().CronJobs(namespace).Get; a request with a cancelled
\* context fails.
GetCronJob ==
    /\ pc = "rj_get"
    /\ \/ /\ ~ctxDone
          /\ pc' = IF secretEnv THEN "rjs_createSecret" ELSE "rj_create"
          /\ UNCHANGED rjResult
       \/ /\ rjResult' = Errorf("could not get the CronJob", ApiError)
          /\ pc' = "rj_ret"
    /\ UNCHANGED <<componentVars, exitStatus, secretEnv, secret, td, job, result, ctxDone, chanVars, panicked,
                   jobInfVars, podInfVars, loop, tails, received, jobLast>>

\* The generated name of the Secret that Create returns.
SecretName == "cj-s1"
\* The Name of the Secret that Apply returns with an error: the typed client
\* decodes the response into a new, empty Secret and returns it with the error.
ApplyFailedResult == ""

\* runJobFromCronJobWithSecret: clientset.CoreV1().Secrets(namespace).Create
CreateSecret ==
    /\ pc = "rjs_createSecret"
    /\ \/ /\ ~ctxDone
          /\ secret' = [secret EXCEPT !.state = "created", !.name = SecretName]
          /\ pc' = "rj_create"
          /\ UNCHANGED rjResult
       \/ /\ rjResult' = RunJobFromCronJobResult(Errorf("create a Secret", ApiError))
          /\ pc' = "rj_ret"
          /\ UNCHANGED secret
    /\ UNCHANGED <<componentVars, exitStatus, secretEnv, td, job, result, ctxDone, chanVars, panicked, jobInfVars,
                   podInfVars, loop, tails, received, jobLast>>

\* clientset.BatchV1().Jobs(namespace).Create; on an error the deferred delete
\* of the Secret runs, when there is one.
CreateJob ==
    /\ pc = "rj_create"
    /\ \/ /\ ~ctxDone
          /\ \E j \in Jobs : job' = j
          /\ pc' = IF secretEnv THEN "rjs_apply" ELSE "wfj_begin"
          /\ UNCHANGED rjResult
       \/ /\ rjResult' = RunJobFromCronJobResult(Errorf("could not create a Job", ApiError))
          /\ pc' = IF secretEnv THEN "rjs_delete" ELSE "rj_ret"
          /\ UNCHANGED job
    /\ UNCHANGED <<componentVars, exitStatus, secretEnv, secret, td, result, ctxDone, chanVars, panicked,
                   jobInfVars, podInfVars, loop, tails, received, jobLast>>

\* secret, err = clientset.CoreV1().Secrets(namespace).Apply of the owner
\* reference; it assigns the variable `secret` that the deferred delete reads.
ApplyOwnerReference ==
    /\ pc = "rjs_apply"
    /\ \/ /\ ~ctxDone
          /\ secret' = [secret EXCEPT !.state = "owned", !.name = SecretName]
          /\ pc' = "wfj_begin"
          /\ UNCHANGED rjResult
       \/ /\ rjResult' = RunJobFromCronJobResult(
                             Errorf("apply the owner reference to the Secret", ApiError))
          /\ pc' = "rjs_delete"
          /\ secret' = [secret EXCEPT !.name = ApplyFailedResult]
    /\ UNCHANGED <<componentVars, exitStatus, secretEnv, td, job, result, ctxDone, chanVars, panicked, jobInfVars,
                   podInfVars, loop, tails, received, jobLast>>

\* The deferred clientset.CoreV1().Secrets(namespace).Delete(ctx, ...); it is
\* given the context of the run (a request with a cancelled context fails),
\* and its error is only logged.
DeleteSecret ==
    /\ pc = "rjs_delete"
    /\ LET call == [name |-> secret.name, ctxDone |-> ctxDone]
           called == [secret EXCEPT !.deletes = Append(secret.deletes, call)]
       IN \/ /\ ~ctxDone /\ secret.name = SecretName
             /\ secret' = [called EXCEPT !.state = "deleted"]
          \/ secret' = called
    /\ pc' = "rj_ret"
    /\ UNCHANGED <<componentVars, exitStatus, secretEnv, td, job, result, rjResult, ctxDone, chanVars, panicked,
                   jobInfVars, podInfVars, loop, tails, received, jobLast>>

\* The caller's handling of WaitForJob's return value.
WrapWaitForJob(err) == IF err # Nil THEN Errorf("run the Job", err) ELSE Nil

ReturnFromWaitForJob ==
    /\ pc = "wfj_ret"
    /\ rjResult' = RunJobFromCronJobResult(WrapWaitForJob(result))
    /\ pc' = IF secretEnv THEN "rjs_delete" ELSE "rj_ret"
    /\ UNCHANGED <<componentVars, exitStatus, secretEnv, secret, td, job, result, ctxDone, chanVars, panicked,
                   jobInfVars, podInfVars, loop, tails, received, jobLast>>

\* main: `if err := run(...); err != nil { log.Fatalf("Error: %s", err) }`;
\* log.Fatalf ends the process with os.Exit(1), a return from main with 0.
ExitStatusMutant(err) == IF IsJobFailedError(err) THEN 1 ELSE 0
ExitStatus(err) == IF err # Nil THEN 1 ELSE 0

ExitProcess ==
    /\ pc = "rj_ret"
    /\ exitStatus' = ExitStatus(rjResult)
    /\ pc' = "exited"
    /\ UNCHANGED <<componentVars, secretEnv, secret, td, job, result, rjResult, ctxDone,
                   chanVars, panicked, jobInfVars, podInfVars, loop, tails, received, jobLast>>

\* ------------------------------------------------------------- WaitForJob
\* make(chan ...) x3 and containerLoggerWaiter.Start(func() { for ... range })
BeginWaitForJob ==
    /\ pc = "wfj_begin"
    /\ loop' = "range"
    /\ pc' = "wfj_startPod"
    /\ UNCHANGED <<componentVars, exitStatus, secretEnv, secret, td, job, result, rjResult, ctxDone, chanVars,
                   panicked, jobInfVars, podInfVars, tails, received, jobLast>>

\* pods.StartInformer, then informerWaiter.Start(podInformer.Shutdown)
StartPodInformer ==
    /\ pc = "wfj_startPod"
    /\ \/ /\ podInf' = "running"
          /\ pc' = "wfj_startJob"
          /\ UNCHANGED <<result, td>>
       \/ /\ result' = Errorf("could not start the pod informer", ApiError)
          /\ pc' = "wfj_defer"
          /\ td' = 1
          /\ UNCHANGED podInf
    /\ UNCHANGED <<componentVars, exitStatus, secretEnv, secret, job, rjResult, ctxDone, chanVars, panicked,
                   jobInfVars, podSeen,
                   podStatus, podH, nPodUpd, loop, tails, received, jobLast>>

\* jobs.StartInformer, then informerWaiter.Start(jobInformer.Shutdown)
StartJobInformer ==
    /\ pc = "wfj_startJob"
    /\ \/ /\ jobInf' = "running"
          /\ pc' = "wfj_select"
          /\ UNCHANGED <<result, td>>
       \/ /\ result' = Errorf("could not start the job informer", ApiError)
          /\ pc' = "wfj_defer"
          /\ td' = 1
          /\ UNCHANGED jobInf
    /\ UNCHANGED <<componentVars, exitStatus, secretEnv, secret, job, rjResult, ctxDone, chanVars, panicked,
                   jobSeen, jobH, nJobUpd,
                   jobEmitted, podInfVars, loop, tails, received, jobLast>>

\* The value WaitForJob returns for a condition type received from jobFinishedCh.
SelectResultMutant(jobConditionType, j) ==
    IF jobConditionType = JobComplete THEN JobFailedError(j) ELSE Nil
SelectResult(jobConditionType, j) ==
    IF jobConditionType = JobFailed THEN JobFailedError(j) ELSE Nil

\* select: case <-ctx.Done()
SelectCtxDone ==
    /\ pc = "wfj_select"
    /\ ctxDone
    /\ result' = ContextCanceled
    /\ pc' = "wfj_defer"
    /\ td' = 1
    /\ UNCHANGED <<componentVars, exitStatus, secretEnv, secret, job, rjResult, ctxDone, chanVars, panicked,
                   jobInfVars, podInfVars, loop, tails, received, jobLast>>

\* The deferred function of WaitForJob, one entry per statement.
TeardownOrderMutant ==
    <<"close(stopCh)", "close(containerStartedCh)", "close(jobFinishedCh)",
      "informerWaiter.Wait", "containerLoggerWaiter.Wait">>
TeardownOrder ==
    <<"close(stopCh)", "informerWaiter.Wait", "close(containerStartedCh)",
      "close(jobFinishedCh)", "containerLoggerWaiter.Wait">>

AllTailsReturned == \A i \in 1..Len(tails) : tails[i].st = "returned"

\* wait.Group.Wait of informerWaiter: every started Shutdown has returned.
InformerWaiterDoneMutant == jobInf # "running"
InformerWaiterDone == jobInf # "running" /\ podInf # "running"
\* wait.Group.Wait of containerLoggerWaiter: the loop and every Tail returned.
ContainerLoggerWaiterDoneMutant == loop # "range"
ContainerLoggerWaiterDone == loop # "range" /\ AllTailsReturned

Teardown ==
    /\ pc = "wfj_defer"
    /\ LET stmt == TeardownOrder[td] IN
       /\ stmt = "informerWaiter.Wait" => InformerWaiterDone
       /\ stmt = "containerLoggerWaiter.Wait" => ContainerLoggerWaiterDone
       /\ stopChClosed' = (stopChClosed \/ stmt = "close(stopCh)")
       /\ containerStartedChClosed' =
              (containerStartedChClosed \/ stmt = "close(containerStartedCh)")
       /\ jobFinishedChClosed' = (jobFinishedChClosed \/ stmt = "close(jobFinishedCh)")
    /\ IF td = Len(TeardownOrder)
         THEN pc' = "wfj_ret" /\ td' = 0
         ELSE pc' = pc /\ td' = td + 1
    /\ UNCHANGED <<componentVars, exitStatus, secretEnv, secret, job, result, rjResult, ctxDone, panicked,
                   jobInfVars, podInfVars, loop, tails, received, jobLast>>


\* ------------------------------------------------- Job informer (tracker)
\* findCondition: the index of the first condition with status True, 0 if none.
findCondition(conditions) ==
    IF \E i \in 1..Len(conditions) : conditions[i].Status = ConditionTrue
      THEN CHOOSE i \in 1..Len(conditions) :
             /\ conditions[i].Status = ConditionTrue
             /\ \A k \in 1..(i - 1) : conditions[k].Status # ConditionTrue
      ELSE 0

\* eventHandler.OnUpdate: the condition type it sends on finishedCh for the
\* new snapshot, "" when it sends nothing.
OnUpdateSendsMutant(conditions) ==
    LET i == findCondition(conditions) IN IF i = 0 THEN "" ELSE conditions[i].Type
OnUpdateSends(conditions) ==
    LET i == findCondition(conditions) IN
    IF i = 0 THEN ""
    ELSE IF conditions[i].Type = JobComplete THEN JobComplete
    ELSE IF conditions[i].Type = JobFailed THEN JobFailed
    ELSE ""

\* eventHandler.OnAdd: it only logs; nothing is sent for the snapshot.
OnAddSends(conditions) == ""

\* The Complete and Failed conditions of a snapshot that have status True
\* (what jobLast, a history variable, keeps of a notification).
TerminalTrue(conditions) ==
    { conditions[i].Type : i \in { k \in 1..Len(conditions) :
          /\ conditions[k].Status = ConditionTrue
          /\ conditions[k].Type \in {JobComplete, JobFailed} } }

\* The listener calls the handler with one notification at a time; a handler
\* that sends stays in the call until the send completes.
JobHandlerCall(sends) ==
    /\ jobH' = IF sends = "" THEN IdleJobH ELSE [pc |-> "send", val |-> sends]
    /\ jobEmitted' = IF sends = "" THEN jobEmitted ELSE Append(jobEmitted, sends)

\* The informer delivers the Job of the initial list (or its creation).
JobOnAdd ==
    /\ jobInf = "running"
    /\ jobH.pc = "idle"
    /\ ~jobSeen
    /\ \E conditions \in JobConditionLists :
          /\ JobHandlerCall(OnAddSends(conditions))
          /\ jobLast' = [kind |-> "Added", terminal |-> TerminalTrue(conditions)]
    /\ jobSeen' = TRUE
    /\ UNCHANGED <<componentVars, exitStatus, mainVars, ctxDone, chanVars, panicked, jobInf, nJobUpd, podInfVars,
                   loop, tails, received>>

\* The informer delivers a change of the Job.
JobOnUpdate ==
    /\ jobInf = "running"
    /\ jobH.pc = "idle"
    /\ jobSeen
    /\ nJobUpd < MaxJobUpdates
    /\ \E conditions \in JobConditionLists :
          /\ JobHandlerCall(OnUpdateSends(conditions))
          /\ jobLast' = [kind |-> "Updated", terminal |-> TerminalTrue(conditions)]
    /\ nJobUpd' = nJobUpd + 1
    /\ UNCHANGED <<componentVars, exitStatus, mainVars, ctxDone, chanVars, panicked, jobInf, jobSeen, podInfVars,
                   loop, tails, received>>

\* h.finishedCh <- condition.Type, received by the select of WaitForJob
\* (case jobConditionType := <-jobFinishedCh). A send on a closed channel panics.
SendJobFinished ==
    /\ jobH.pc = "send"
    /\ IF jobFinishedChClosed
         THEN /\ panicked' = TRUE
              /\ UNCHANGED <<mainVars, received>>
         ELSE /\ pc = "wfj_select"
              /\ received' = jobH.val
              /\ result' = SelectResult(jobH.val, job)
              /\ pc' = "wfj_defer"
              /\ td' = 1
              /\ UNCHANGED <<secretEnv, secret, job, rjResult, panicked>>
    /\ jobH' = IdleJobH
    /\ UNCHANGED <<componentVars, exitStatus, ctxDone, chanVars, jobInf, jobSeen, nJobUpd, jobEmitted, jobLast,
                   podInfVars, loop, tails>>

\* informerFactory.Shutdown returns once stopCh is closed and the listener
\* goroutine, which runs the handler, has returned.
JobInformerShutdown ==
    /\ jobInf = "running"
    /\ stopChClosed
    /\ jobH.pc = "idle"
    /\ jobInf' = "stopped"
    /\ UNCHANGED <<componentVars, exitStatus, mainVars, ctxDone, chanVars, panicked, jobSeen, jobH, nJobUpd,
                   jobEmitted, jobLast, podInfVars, loop, tails, received>>

\* ------------------------------------------------- Pod informer (tracker)
ContainerStartedEvent(namespace, podName, containerName) ==
    [Namespace |-> namespace, PodName |-> podName, ContainerName |-> containerName]

\* The condition of notifyContainerStarted on a changed container.
StartRuleMutant(oldState, newState) == newState = "Running"
StartRule(oldState, newState) ==
    \/ oldState = "Waiting" /\ newState # "Waiting"
    \/ oldState = "Terminated" /\ newState = "Running"

\* A container without an entry in a status list (the zero ContainerStatus
\* that a lookup in the map of mapContainerStatusByName yields).
Absent == "Absent"

\* getContainerState: "Waiting" when no member of the state is set.
getContainerStateMutant(containerStatus) ==
    IF containerStatus \in {"Running", "Waiting"} THEN containerStatus ELSE "Terminated"
getContainerState(containerStatus) ==
    IF containerStatus = "Running" THEN "Running"
    ELSE IF containerStatus = "Terminated" THEN "Terminated"
    ELSE "Waiting"

\* computeContainerStateChanges: a container of the new list is changed when
\* its state differs from the one of the old list.
ContainerStateChanged(oldStatus, newStatus, c) ==
    /\ newStatus[c] # Absent
    /\ getContainerState(oldStatus[c]) # getContainerState(newStatus[c])

\* Whether notifyContainerStarted sends an event for container c: c is among
\* the changes of computeContainerStateChanges and its change is a start.
ContainerStartedMutant(oldStatus, newStatus, c) ==
    /\ newStatus[c] # Absent
    /\ getContainerState(newStatus[c]) # "Waiting"
ContainerStarted(oldStatus, newStatus, c) ==
    /\ ContainerStateChanged(oldStatus, newStatus, c)
    /\ StartRule(getContainerState(oldStatus[c]), getContainerState(newStatus[c]))

\* notifyContainerStarted for one status list: the events it sends, in order.
\* (Each list of the model holds one container, so the map iteration order of
\* computeContainerStateChanges does not matter.)
RECURSIVE notifyContainerStarted(_, _, _, _, _)
notifyContainerStarted(namespace, podName, names, oldStatus, newStatus) ==
    IF names = <<>> THEN <<>>
    ELSE LET c == Head(names)
             rest == notifyContainerStarted(namespace, podName, Tail(names),
                                            oldStatus, newStatus)
         IN IF ContainerStarted(oldStatus, newStatus, c)
              THEN <<ContainerStartedEvent(namespace, podName, c)>> \o rest
              ELSE rest

\* A status list without any entry.
AllAbsent(status) == [c \in DOMAIN status |-> Absent]

\* eventHandler.OnUpdate: init containers first, then the regular ones.
OnUpdateEventsMutant(namespace, initNames, names, oldStatus, newStatus) ==
    notifyContainerStarted(namespace, PodName, initNames, AllAbsent(oldStatus), newStatus)
    \o notifyContainerStarted(namespace, PodName, names, oldStatus, newStatus)
OnUpdateEvents(namespace, initNames, names, oldStatus, newStatus) ==
    notifyContainerStarted(namespace, PodName, initNames, oldStatus, newStatus)
    \o notifyContainerStarted(namespace, PodName, names, oldStatus, newStatus)

PodOnUpdateSends(namespace, oldStatus, newStatus) ==
    OnUpdateEvents(namespace, InitContainers, AppContainers, oldStatus, newStatus)

PodHandlerCall(events) ==
    podH' = IF events = <<>> THEN IdlePodH ELSE [pc |-> "send", pending |-> events]

\* eventHandler.OnAdd only logs the phase.
PodOnAdd ==
    /\ podInf = "running"
    /\ podH.pc = "idle"
    /\ ~podSeen
    /\ \E st \in PodStatuses : podStatus' = st
    /\ podSeen' = TRUE
    /\ PodHandlerCall(<<>>)
    /\ UNCHANGED <<componentVars, exitStatus, mainVars, ctxDone, chanVars, panicked, jobInfVars, jobLast, podInf,
                   nPodUpd, loop, tails, received>>

PodOnUpdate ==
    /\ podInf = "running"
    /\ podH.pc = "idle"
    /\ podSeen
    /\ nPodUpd < MaxPodUpdates
    /\ \E st \in PodStatuses :
          /\ podStatus' = st
          /\ PodHandlerCall(PodOnUpdateSends(job.Namespace, podStatus, st))
    /\ nPodUpd' = nPodUpd + 1
    /\ UNCHANGED <<componentVars, exitStatus, mainVars, ctxDone, chanVars, panicked, jobInfVars, jobLast, podInf,
                   podSeen, loop, tails, received>>

\* The body of the range loop for the event e it received: a goroutine of
\* containerLoggerWaiter that runs logs.Tail(ctx, clientset, e.Namespace,
\* e.PodName, e.ContainerName, ...). `teardown` records whether stopCh was
\* already closed then.
StartTailMutant(ts, e, stopped) ==
    IF stopped THEN ts ELSE Append(ts, [ev |-> e, st |-> "resume", teardown |-> stopped])
StartTail(ts, e, stopped) ==
    Append(ts, [ev |-> e, st |-> "resume", teardown |-> stopped])

\* h.containerStartedCh <- ContainerStartedEvent{...}, received by the loop
\* `for containerStartedEvent := range containerStartedCh`, which starts a
\* goroutine running logs.Tail for the event.
SendContainerStarted ==
    /\ podH.pc = "send"
    /\ IF containerStartedChClosed
         THEN /\ panicked' = TRUE
              /\ UNCHANGED tails
         ELSE /\ loop = "range"
              /\ tails' = StartTail(tails, Head(podH.pending), stopChClosed)
              /\ UNCHANGED panicked
    /\ podH' = IF Len(podH.pending) = 1 THEN IdlePodH
               ELSE [pc |-> "send", pending |-> Tail(podH.pending)]
    /\ UNCHANGED <<componentVars, exitStatus, mainVars, ctxDone, chanVars, jobInfVars, jobLast, podInf, podSeen,
                   podStatus, nPodUpd, loop, received>>

PodInformerShutdown ==
    /\ podInf = "running"
    /\ stopChClosed
    /\ podH.pc = "idle"
    /\ podInf' = "stopped"
    /\ UNCHANGED <<componentVars, exitStatus, mainVars, ctxDone, chanVars, panicked, jobInfVars, jobLast, podSeen,
                   podStatus, podH, nPodUpd, loop, tails, received>>

\* The range loop ends when containerStartedCh is closed.
LoopExit ==
    /\ loop = "range"
    /\ containerStartedChClosed
    /\ loop' = "exited"
    /\ UNCHANGED <<componentVars, exitStatus, mainVars, ctxDone, chanVars, panicked, jobInfVars, jobLast,
                   podInfVars, tails, received>>

\* ------------------------------------------------------------- logs.Tail
\* One call of t.resume by the Tail loop, by the way the stream ends.
\*   "eof"       clean end of stream: Tail returns
\*   "notfound"  kerrors.IsNotFound: Tail returns
\*   "canceled"  errors.Is(err, context.Canceled): Tail returns
\*   "error"     any other error: time.Sleep(100ms), then resume again
\* A stream opened or read with a cancelled context ends with its error.
\* An error that wraps context.DeadlineExceeded is not context.Canceled: for
\* Tail it is "error" like any other.
CtxErr == IF deadline THEN "error" ELSE "canceled"
StreamOutcomes == IF ctxDone THEN {CtxErr} ELSE {"eof", "notfound", "error"}

\* At most one Tail is started per container and Updated notification.
TailIds == 1..(MaxPodUpdates * Cardinality(ContainerNames))

TailAfterResumeMutant(outcome) ==
    IF outcome \in {"eof", "notfound"} THEN "returned" ELSE "sleep"
TailAfterResume(outcome) ==
    IF outcome \in {"eof", "notfound", "canceled"} THEN "returned" ELSE "sleep"

TailResume(i) ==
    /\ i \in 1..Len(tails)
    /\ tails[i].st = "resume"
    /\ \E outcome \in StreamOutcomes :
          tails' = [tails EXCEPT ![i].st = TailAfterResume(outcome)]
    /\ UNCHANGED <<componentVars, exitStatus, mainVars, ctxDone, chanVars, panicked, jobInfVars, jobLast,
                   podInfVars, loop, received>>

\* time.Sleep(100 * time.Millisecond) returns.
TailWake(i) ==
    /\ i \in 1..Len(tails)
    /\ tails[i].st = "sleep"
    /\ tails' = [tails EXCEPT ![i].st = "resume"]
    /\ UNCHANGED <<componentVars, exitStatus, mainVars, ctxDone, chanVars, panicked, jobInfVars, jobLast,
                   podInfVars, loop, received>>

Next ==
    \/ Cancel
    \/ GetCronJob
    \/ CreateSecret
    \/ CreateJob
    \/ ApplyOwnerReference
    \/ DeleteSecret
    \/ ReturnFromWaitForJob
    \/ ExitProcess
    \/ BeginWaitForJob
    \/ StartPodInformer
    \/ StartJobInformer
    \/ SelectCtxDone
    \/ Teardown
    \/ JobOnAdd
    \/ JobOnUpdate
    \/ SendJobFinished
    \/ JobInformerShutdown
    \/ PodOnAdd
    \/ PodOnUpdate
    \/ SendContainerStarted
    \/ PodInformerShutdown
    \/ LoopExit
    \/ \E i \in TailIds : TailResume(i)
    \/ \E i \in TailIds : TailWake(i)

Spec == Init /\ [][Next]_vars

\* Every goroutine of the program that can take a step eventually takes one.
\* No fairness is assumed of the environment: the signal that cancels the
\* context, the notifications of the API server, and how a log stream ends
\* while the context is live.
FairSpec ==
    /\ Spec
    /\ WF_vars(GetCronJob)
    /\ WF_vars(CreateSecret)
    /\ WF_vars(CreateJob)
    /\ WF_vars(ApplyOwnerReference)
    /\ WF_vars(DeleteSecret)
    /\ WF_vars(ReturnFromWaitForJob)
    /\ WF_vars(ExitProcess)
    /\ WF_vars(BeginWaitForJob)
    /\ WF_vars(StartPodInformer)
    /\ WF_vars(StartJobInformer)
    /\ WF_vars(SelectCtxDone)
    /\ WF_vars(Teardown)
    /\ WF_vars(SendJobFinished)
    /\ WF_vars(JobInformerShutdown)
    /\ WF_vars(SendContainerStarted)
    /\ WF_vars(PodInformerShutdown)
    /\ WF_vars(LoopExit)
    /\ \A i \in TailIds : WF_vars(ctxDone /\ TailResume(i))
    /\ \A i \in TailIds : WF_vars(TailWake(i))

\* ------------------------------------------------ pods tracker on its own
\* The event handler of internal/pods fed with the snapshots of a Pod that has
\* one init container and one regular container; every Updated notification
\* carries the previous snapshot as the old object.
MaxTrackerUpdates == 3  \* Updated notifications given to the handler

TrackerInitContainers == <<"init">>
TrackerContainers == <<"app">>
TrackerContainerNames == {"init", "app"}
TrackerStatuses == [TrackerContainerNames -> ContainerStates \cup {Absent}]
TrackerNamespace == "ns1"

TrackerInit ==
    /\ secretEnv = FALSE
    /\ RunInit
    /\ TrackerIdle
    /\ TailerIdle
    /\ CreateIdle
    /\ JobUpdateIdle

\* eventHandler.OnAdd only logs the phase.
TrackerOnAdd ==
    /\ podTrace = <<>>
    /\ \E st \in TrackerStatuses : podTrace' = <<st>>
    /\ UNCHANGED <<tailerVars, createVars, jobUpdateVars, podEvents, mainVars, ctxDone, chanVars, panicked, jobInfVars, jobLast,
                   podInfVars, loop, tails, received, exitStatus>>

\* eventHandler.OnUpdate(oldObj, newObj)
TrackerOnUpdate ==
    /\ podTrace # <<>>
    /\ Len(podEvents) < MaxTrackerUpdates
    /\ \E st \in TrackerStatuses :
          /\ podTrace' = Append(podTrace, st)
          /\ podEvents' = Append(podEvents,
                 OnUpdateEvents(TrackerNamespace, TrackerInitContainers, TrackerContainers,
                                podTrace[Len(podTrace)], st))
    /\ UNCHANGED <<tailerVars, createVars, jobUpdateVars, mainVars, ctxDone, chanVars, panicked, jobInfVars, jobLast,
                   podInfVars, loop, tails, received, exitStatus>>

TrackerNext == TrackerOnAdd \/ TrackerOnUpdate

TrackerSpec == TrackerInit /\ [][TrackerNext]_vars

\* The variables of the run, which the components leave alone.
programVars == <<mainVars, ctxDone, chanVars, panicked, jobInfVars, jobLast, podInfVars,
                 loop, tails, received, exitStatus>>

\* ------------------------------------- one Updated notification on its own
\* eventHandler.OnUpdate called once with any old and any new snapshot; a
\* container of a snapshot may also have a status with no member of its state
\* set.
Unset == "Unset"
SnapshotStatuses == [TrackerContainerNames -> ContainerStates \cup {Absent, Unset}]

\* oldObj
PodUpdateInit ==
    /\ secretEnv = FALSE
    /\ RunInit
    /\ TailerIdle
    /\ CreateIdle
    /\ JobUpdateIdle
    /\ podTrace \in { <<st>> : st \in SnapshotStatuses }
    /\ podEvents = <<>>

\* eventHandler.OnUpdate(oldObj, newObj)
PodUpdateOnUpdate ==
    /\ Len(podTrace) = 1
    /\ \E st \in SnapshotStatuses :
          /\ podTrace' = Append(podTrace, st)
          /\ podEvents' = <<OnUpdateEvents(TrackerNamespace, TrackerInitContainers,
                                           TrackerContainers, podTrace[1], st)>>
    /\ UNCHANGED <<tailerVars, createVars, jobUpdateVars, programVars>>

PodUpdateNext == PodUpdateOnUpdate

PodUpdateSpec == PodUpdateInit /\ [][PodUpdateNext]_vars

\* ----------------------------------------------------- logs.Tail on its own
\* One Tail goroutine with the log of its container, from `var t tailer` to
\* its return.
MaxLogLines == 3        \* lines in the log of the container
MaxResumes == 2         \* calls of t.resume in one Tail

\* A string is a sequence of characters. Stamp(t) stands for the RFC3339 text
\* of time t, Body(k) for a character of what the container wrote as line k.
Ch(c) == [c |-> c, t |-> 0]
Stamp(t) == [c |-> "stamp", t |-> t]
Body(k) == [c |-> "m", t |-> k]
Space == Ch(" ")
Newline == Ch("LF")

\* unicode.IsSpace
IsSpace(ch) == ch \in {Space, Newline}

\* strings.TrimRightFunc(str, unicode.IsSpace)
RECURSIVE TrimRightFunc(_)
TrimRightFunc(str) ==
    IF str # <<>> /\ IsSpace(str[Len(str)])
      THEN TrimRightFunc(SubSeq(str, 1, Len(str) - 1))
      ELSE str

\* strings.SplitN(str, " ", 2)
SplitN(str) ==
    IF \E i \in 1..Len(str) : str[i] = Space
      THEN LET i == CHOOSE k \in 1..Len(str) :
                      /\ str[k] = Space
                      /\ \A m \in 1..(k - 1) : str[m] # Space
           IN <<SubSeq(str, 1, i - 1), SubSeq(str, i + 1, Len(str))>>
      ELSE <<str>>

\* time.Parse(time.RFC3339, value): the time, NilTime for an error.
ParseRFC3339(value) ==
    IF Len(value) = 1 /\ value[1].c = "stamp" THEN value[1].t ELSE NilTime

\* parseLine(line): (rawTimestamp, metaTime, message)
parseLineMutant(rawLine) ==
    LET s == SplitN(TrimRightFunc(rawLine)) IN
    [rawTimestamp |-> <<>>, metaTime |-> ParseRFC3339(s[1]), message |-> s[Len(s)]]
parseLine(rawLine) ==
    LET trimmedLine == TrimRightFunc(rawLine)
        s == SplitN(trimmedLine)
        whole == [rawTimestamp |-> <<>>, metaTime |-> NilTime, message |-> trimmedLine]
    IN IF Len(s) # 2 THEN whole
       ELSE IF ParseRFC3339(s[1]) = NilTime THEN whole
       ELSE [rawTimestamp |-> s[1], metaTime |-> ParseRFC3339(s[1]), message |-> s[2]]

\* Record{RawTimestamp, Namespace, PodName, ContainerName, Message}
Record(rawTimestamp, message) ==
    [RawTimestamp |-> rawTimestamp, Namespace |-> TrackerNamespace, PodName |-> PodName,
     ContainerName |-> "app", Message |-> message]

\* defaultContainerLogger.Handle(record): the characters that
\* fmt.Printf("|%s|%s|%s|%s| %s", ...) writes to the standard output.
Handle(record) ==
    <<Ch("|")>> \o record.RawTimestamp \o
    <<Ch("|"), Ch(record.Namespace), Ch("|"), Ch(record.PodName), Ch("|"),
      Ch(record.ContainerName), Ch("|"), Space>> \o record.Message

\* The standard output after the default sink handled the records in order.
RECURSIVE Stdout(_)
Stdout(records) ==
    IF records = <<>> THEN <<>> ELSE Handle(Head(records)) \o Stdout(Tail(records))

\* The lines the API may deliver for entry k of the log (Timestamps: true):
\* the timestamp, a space and the text; the same for an empty text; a line
\* without a space-delimited prefix; a line whose prefix is not a timestamp.
LineShapes(k) ==
    { <<Stamp(k), Space, Body(k), Space, Body(k), Space, Newline>>,
      <<Stamp(k), Space, Newline>>,
      <<Body(k), Space, Newline>>,
      <<Ch("x"), Space, Body(k), Newline>> }

\* The logs of a container: entry k was written at time k; the last line may
\* lack its newline.
ContainerLogs ==
    UNION { { [k \in 1..n |-> [time |-> k,
                               line |-> IF k = n /\ ~terminated
                                          THEN SubSeq(f[k], 1, Len(f[k]) - 1) ELSE f[k]]] :
                f \in { g \in [1..n -> UNION { LineShapes(k) : k \in 1..n }] :
                          \A k \in 1..n : g[k] \in LineShapes(k) },
                terminated \in BOOLEAN } :
            n \in 0..MaxLogLines }

RECURSIVE Concat(_)
Concat(entries) ==
    IF entries = <<>> THEN <<>> ELSE Head(entries).line \o Concat(Tail(entries))

\* GetLogs(podName, &PodLogOptions{SinceTime: since}): the API server returns
\* the entries that are not older than SinceTime, all of them for nil.
GetLogs(log, since) == SelectSeq(log, LAMBDA e : e.time >= since)

\* reader.ReadString('\n') on the bytes left: [line, rest, err]
ReadString(bytes, end) ==
    IF \E i \in 1..Len(bytes) : bytes[i] = Newline
      THEN LET i == CHOOSE k \in 1..Len(bytes) :
                      /\ bytes[k] = Newline
                      /\ \A m \in 1..(k - 1) : bytes[m] # Newline
           IN [line |-> SubSeq(bytes, 1, i), rest |-> SubSeq(bytes, i + 1, Len(bytes)),
               err |-> "nil"]
      ELSE [line |-> bytes, rest |-> <<>>, err |-> end]

\* `if line != ""`
ShouldHandleMutant(str, err) == str # <<>> /\ err = "nil"
ShouldHandle(str, err) == str # <<>>

TailerInit ==
    /\ secretEnv = FALSE
    /\ RunInit
    /\ TrackerIdle
    /\ containerLog \in ContainerLogs
    /\ TailerNew
    /\ CreateIdle
    /\ JobUpdateIdle

\* The end of one iteration of the read loop of t.resume: `if err == io.EOF
\* { return nil }`, `if err != nil { return ... }`, and what Tail does with
\* the value returned.
EndIteration(err) ==
    IF err = "nil"
      THEN tailPc' = "read" /\ UNCHANGED resumeErr
      ELSE resumeErr' = err /\ tailPc' = TailAfterResume(err)

\* t.resume: GetLogs(...).Stream(ctx). An "error" stream breaks after some of
\* its lines; an "eof" stream delivers all of them.
TailerOpen ==
    /\ tailPc = "resume"
    /\ nResume' = IF ctxDone THEN nResume ELSE nResume + 1
    /\ sinceTime' = lastLogTime
    /\ sinkAtOpen' = Len(sink)
    /\ \E outcome \in StreamOutcomes :
          LET entries == GetLogs(containerLog, lastLogTime) IN
          IF outcome = "notfound" \/ ctxDone
            THEN /\ resumeErr' = outcome
                 /\ tailPc' = TailAfterResume(outcome)
                 /\ opened' = <<>> /\ stream' = <<>>
                 /\ UNCHANGED streamEnd
            ELSE /\ \E n \in 0..Len(entries) :
                       /\ outcome = "eof" => n = Len(entries)
                       /\ opened' = Concat(SubSeq(entries, 1, n))
                       /\ stream' = Concat(SubSeq(entries, 1, n))
                 /\ streamEnd' = outcome
                 /\ resumeErr' = "none"
                 /\ tailPc' = "read"
    /\ UNCHANGED <<containerLog, deadline, line, readErr, lastLogTime, sink, trackerVars, createVars, jobUpdateVars, programVars>>

\* line, err := reader.ReadString('\n'); a read with a cancelled context may
\* fail with its error.
TailerRead ==
    /\ tailPc = "read"
    /\ \/ /\ ctxDone
          /\ line' = <<>> /\ readErr' = CtxErr
          /\ UNCHANGED stream
       \/ LET r == ReadString(stream, streamEnd) IN
          /\ line' = r.line /\ readErr' = r.err
          /\ stream' = r.rest
    /\ IF ShouldHandle(line', readErr')
         THEN tailPc' = "handle" /\ UNCHANGED resumeErr
         ELSE EndIteration(readErr')
    /\ UNCHANGED <<containerLog, deadline, nResume, sinceTime, opened, streamEnd, lastLogTime, sink,
                   sinkAtOpen, trackerVars, createVars, jobUpdateVars, programVars>>

\* rawTimestamp, metaTime, message := parseLine(line); tlog.Handle(Record{...})
TailerHandle ==
    /\ tailPc = "handle"
    /\ LET p == parseLine(line) IN sink' = Append(sink, Record(p.rawTimestamp, p.message))
    /\ tailPc' = "advance"
    /\ UNCHANGED <<containerLog, deadline, nResume, sinceTime, opened, stream, streamEnd, line, readErr,
                   lastLogTime, sinkAtOpen, resumeErr, trackerVars, createVars, jobUpdateVars, programVars>>

\* t.lastLogTime = metaTime, then the end of the iteration
TailerAdvance ==
    /\ tailPc = "advance"
    /\ lastLogTime' = parseLine(line).metaTime
    /\ EndIteration(readErr)
    /\ UNCHANGED <<containerLog, deadline, nResume, sinceTime, opened, stream, streamEnd, line, readErr,
                   sink, sinkAtOpen, trackerVars, createVars, jobUpdateVars, programVars>>

\* time.Sleep(100 * time.Millisecond) returns and the loop of Tail goes on.
TailerWake ==
    /\ tailPc = "sleep"
    /\ nResume < MaxResumes \/ ctxDone
    /\ tailPc' = "resume"
    /\ UNCHANGED <<containerLog, deadline, nResume, sinceTime, opened, stream, streamEnd, line, readErr,
                   lastLogTime, sink, sinkAtOpen, resumeErr, trackerVars, createVars, jobUpdateVars, programVars>>

\* The deadline of ctx expires.
DeadlineExceeded ==
    /\ ~ctxDone
    /\ ctxDone' = TRUE
    /\ deadline' = TRUE
    /\ UNCHANGED <<containerLog, tailPc, nResume, sinceTime, opened, stream, streamEnd, line,
                   readErr, lastLogTime, sink, sinkAtOpen, resumeErr, trackerVars,
                   createVars, jobUpdateVars, mainVars, chanVars, panicked, jobInfVars,
                   jobLast, podInfVars, loop, tails, received, exitStatus>>

TailerNext ==
    \/ Cancel
    \/ DeadlineExceeded
    \/ TailerOpen
    \/ TailerRead
    \/ TailerHandle
    \/ TailerAdvance
    \/ TailerWake

TailerSpec == TailerInit /\ [][TailerNext]_vars

\* The Tail goroutine keeps running; the context is cancelled, or its
\* deadline expires, or neither, as the caller decides.
FairTailerSpec ==
    /\ TailerSpec
    /\ WF_vars(TailerOpen)
    /\ WF_vars(TailerRead)
    /\ WF_vars(TailerHandle)
    /\ WF_vars(TailerAdvance)
    /\ WF_vars(TailerWake)

\* ------------------------------------------------- job creation on its own
\* The Spec of the Job to create, built from the template of the CronJob and
\* opts.Env.
MaxContainers == 2      \* containers of the pod template

EnvNames == {"FOO", "BAZ"}
EnvValues == {"bar", "qux"}
EnvVar == [Name : EnvNames, Value : EnvValues]

\* map[string]string
EnvMaps == UNION { [names -> EnvValues] : names \in SUBSET EnvNames }

\* corev1.Container: its name (the position in its list) and its env.
ContainerLists(n) ==
    { [k \in 1..n |-> [Name |-> k, Env |-> e[k]]] :
        e \in [1..n -> {<<>>, <<[Name |-> "FOO", Value |-> "bar"]>>}] }

\* batchv1.JobSpec: Template.Spec.Containers and Template.Spec.InitContainers
JobSpecs ==
    UNION { [Containers : ContainerLists(n), InitContainers : ContainerLists(m)] :
            n \in 1..MaxContainers, m \in 0..(MaxContainers - 1) }

\* The orders in which `for name, value := range env` may visit the map.
RangeOrders(m) ==
    { o \in [1..Cardinality(DOMAIN m) -> DOMAIN m] :
        \A i, j \in 1..Cardinality(DOMAIN m) : i # j => o[i] # o[j] }

\* appendEnv(jobSpec, env); order[k] is the order of the range over env for
\* container k.
appendEnvMutant(spec, envMap, order) ==
    [spec EXCEPT !.Containers =
       [k \in 1..Len(spec.Containers) |->
          [spec.Containers[k] EXCEPT !.Env =
             [i \in 1..Cardinality(DOMAIN envMap) |->
                [Name |-> order[k][i], Value |-> envMap[order[k][i]]]]]]]
appendEnv(spec, envMap, order) ==
    IF Cardinality(DOMAIN envMap) = 0 THEN spec
    ELSE [spec EXCEPT !.Containers =
            [k \in 1..Len(spec.Containers) |->
               [spec.Containers[k] EXCEPT !.Env =
                  spec.Containers[k].Env \o
                  [i \in 1..Cardinality(DOMAIN envMap) |->
                     [Name |-> order[k][i], Value |-> envMap[order[k][i]]]]]]]

\* The names of the CronJob, as the characters they are made of.
CronJobNames == {<<"c", "j">>, <<"c", "-">>}

\* map[string]string of labels or annotations
MetaMaps == {NoEnv, [key \in {"my/key"} |-> "foo"], [key \in {"my/key"} |-> "bar"]}

\* batchv1.CronJob: ObjectMeta and Spec.JobTemplate.ObjectMeta
CronJobs ==
    [Namespace : {"ns1", "ns2"}, Name : CronJobNames, UID : {"uid-1"},
     Labels : {NoEnv, [key \in {"my/key"} |-> "own"]},
     TemplateLabels : MetaMaps, TemplateAnnotations : MetaMaps]

\* opts.Secret and opts.SecretEnv
OptsSecret == "secret-1"
SecretEnvLists == {<<>>, <<"SEC">>, <<"SEC", "TOK">>}

\* fmt.Sprintf("%s-", cronJob.Name)
GenerateName(name) == name \o <<"-">>

\* batchv1.SchemeGroupVersion.String()
GroupVersion == "batch/v1"

\* The OwnerReferences of the Job to create.
OwnerReferencesMutant(cj) ==
    <<[APIVersion |-> GroupVersion, Kind |-> "CronJob", Name |-> cj.Name,
       UID |-> cj.UID, Controller |-> FALSE]>>
OwnerReferences(cj) ==
    <<[APIVersion |-> GroupVersion, Kind |-> "CronJob", Name |-> cj.Name,
       UID |-> cj.UID, Controller |-> TRUE]>>

\* The EnvVar that takes key `name` of the secret.
SecretEnvVar(ref, name) ==
    [Name |-> name, SecretKeyRef |-> [LocalObjectReference |-> ref, Key |-> name]]

\* appendSecretEnv(jobSpec, secret, secretEnv)
appendSecretEnv(spec, ref, names) ==
    IF Len(names) = 0 THEN spec
    ELSE [spec EXCEPT !.Containers =
            [k \in 1..Len(spec.Containers) |->
               [spec.Containers[k] EXCEPT !.Env =
                  spec.Containers[k].Env \o
                  [i \in 1..Len(names) |-> SecretEnvVar(ref, names[i])]]]]

CreateInit ==
    /\ secretEnv = FALSE
    /\ RunInit
    /\ TrackerIdle
    /\ TailerIdle
    /\ jobSpec \in JobSpecs
    /\ env \in EnvMaps
    /\ newSpec = NoJobSpec
    /\ cronJob \in CronJobs
    /\ optsSecretEnv \in SecretEnvLists
    /\ jobToCreate = NoJobToCreate
    /\ JobUpdateIdle

\* appendEnv(cronJob.Spec.JobTemplate.Spec, opts.Env), the inner call of the
\* Spec of jobToCreate
BuildJobSpec ==
    /\ newSpec = NoJobSpec
    /\ \E order \in [1..Len(jobSpec.Containers) -> RangeOrders(env)] :
          newSpec' = appendEnv(jobSpec, env, order)
    /\ UNCHANGED <<jobSpec, env, cronJob, optsSecretEnv, jobToCreate,
                   trackerVars, tailerVars, jobUpdateVars, programVars>>

\* jobToCreate := batchv1.Job{ObjectMeta: ..., Spec: appendSecretEnv(...)}
BuildJob ==
    /\ newSpec # NoJobSpec
    /\ jobToCreate = NoJobToCreate
    /\ jobToCreate' =
          [Namespace |-> cronJob.Namespace,
           GenerateName |-> GenerateName(cronJob.Name),
           OwnerReferences |-> OwnerReferences(cronJob),
           Labels |-> cronJob.TemplateLabels,
           Annotations |-> cronJob.TemplateAnnotations,
           Spec |-> appendSecretEnv(newSpec, OptsSecret, optsSecretEnv)]
    /\ UNCHANGED <<jobSpec, env, newSpec, cronJob, optsSecretEnv,
                   trackerVars, tailerVars, jobUpdateVars, programVars>>

CreateNext == BuildJobSpec \/ BuildJob

CreateSpec == CreateInit /\ [][CreateNext]_vars

\* ----------------------------------- one Updated Job notification on its own
\* eventHandler.OnUpdate of internal/jobs called once with any old and any new
\* list of conditions, in the version that sends the first true condition and
\* in the two versions that compare the new conditions with the old ones.

\* The zero JobCondition, which a lookup of a missing type in a map yields.
ZeroCondition == [Type |-> "", Status |-> ""]

\* mapConditionByType(conditions)
mapConditionByType(conditions) ==
    [t \in { conditions[i].Type : i \in 1..Len(conditions) } |->
       conditions[CHOOSE i \in 1..Len(conditions) :
                    /\ conditions[i].Type = t
                    /\ \A k \in (i + 1)..Len(conditions) : conditions[k].Type # t]]

\* m[t] of a Go map
Lookup(m, t) == IF t \in DOMAIN m THEN m[t] ELSE ZeroCondition

\* findChangedConditionsToTrue(oldConditions, newConditions): the map `changed`
findChangedConditionsToTrueMutant(old, new) ==
    LET newMap == mapConditionByType(new)
    IN [t \in { u \in DOMAIN newMap : newMap[u].Status = ConditionTrue } |-> newMap[t]]
findChangedConditionsToTrue(old, new) ==
    LET oldMap == mapConditionByType(old)
        newMap == mapConditionByType(new)
    IN [t \in { u \in DOMAIN newMap :
                  /\ Lookup(oldMap, u).Status # newMap[u].Status
                  /\ newMap[u].Status = ConditionTrue } |-> newMap[t]]

\* notifyFinished(oldJob, newJob, finishedCh): the type it sends, "" when it
\* sends nothing; order is the order of the range over the map `changed`.
RECURSIVE FirstFinished(_)
FirstFinished(order) ==
    IF order = <<>> THEN ""
    ELSE IF Head(order) = JobComplete \/ Head(order) = JobFailed THEN Head(order)
    ELSE FirstFinished(Tail(order))

notifyFinished(old, new, order) == FirstFinished(order)

\* findTrueCondition(conditions): the index of the condition, 0 for nil
findTrueCondition(conditions) ==
    IF \E i \in 1..Len(conditions) : conditions[i].Status = ConditionTrue
      THEN CHOOSE i \in 1..Len(conditions) :
             /\ conditions[i].Status = ConditionTrue
             /\ \A k \in 1..(i - 1) : conditions[k].Status # ConditionTrue
      ELSE 0

\* What a call that returns *JobCondition yields: nil, a condition, or the
\* panic of a nil pointer dereference.
NilCondition == [kind |-> "nil"]
NilDereference == [kind |-> "panic"]
Condition(c) == [kind |-> "condition", condition |-> c]

\* findChangedCondition(oldConditions, newConditions): in
\* `oldCondition != nil || oldCondition.Type == newCondition.Type` the right
\* operand is evaluated only when oldCondition is nil.
findChangedCondition(old, new) ==
    LET oldCondition == findTrueCondition(old)
        newCondition == findTrueCondition(new)
    IN IF newCondition = 0 THEN NilCondition
       ELSE IF oldCondition # 0 THEN NilCondition
       ELSE IF oldCondition = 0 THEN NilDereference
       ELSE IF old[oldCondition].Type = new[newCondition].Type THEN NilCondition
       ELSE Condition(new[newCondition])

JobUpdateInit ==
    /\ secretEnv = FALSE
    /\ RunInit
    /\ TrackerIdle
    /\ TailerIdle
    /\ CreateIdle
    /\ oldConditions \in JobConditionLists
    /\ newConditions \in JobConditionLists
    /\ notified = NotNotified

\* eventHandler.OnUpdate(oldObj, newObj), in each of its versions
JobUpdateOnUpdate ==
    /\ notified = NotNotified
    /\ LET changed == findChangedConditionsToTrue(oldConditions, newConditions) IN
       \E order \in RangeOrders(changed) :
          notified' =
             [called |-> TRUE,
              sends |-> OnUpdateSends(newConditions),
              changed |-> changed,
              finished |-> notifyFinished(oldConditions, newConditions, order),
              changedCondition |-> findChangedCondition(oldConditions, newConditions)]
    /\ UNCHANGED <<oldConditions, newConditions, trackerVars, tailerVars, createVars,
                   programVars>>

JobUpdateNext == JobUpdateOnUpdate

JobUpdateSpec == JobUpdateInit /\ [][JobUpdateNext]_vars

\* ------------------------------------------------------------- properties
\* WaitForJob was called and has returned to its caller.
WaitForJobReturned ==
    pc = "wfj_ret" \/ (pc \in {"rjs_delete", "rj_ret", "exited"} /\ loop # "none")

\* The whole teardown of WaitForJob has run.
TornDown ==
    /\ stopChClosed
    /\ jobInf # "running" /\ podInf # "running"
    /\ containerStartedChClosed /\ jobFinishedChClosed
    /\ loop = "exited"
    /\ \A i \in 1..Len(tails) : tails[i].st = "returned"

\* The deferred function of WaitForJob is past informerWaiter.Wait().
PastInformerWait ==
    /\ pc = "wfj_defer"
    /\ \E k \in 1..(td - 1) : TeardownOrder[k] = "informerWaiter.Wait"

\* C1: WaitForJob returns nil exactly when the outcome it received from the
\* tracker is Complete and a JobFailedError with the Job's namespace and name
\* exactly when it is Failed; RunJobFromCronJob's error then still wraps the
\* JobFailedError, and no other cause yields a JobFailedError.
C1_ResultMatchesOutcome ==
    /\ WaitForJobReturned =>
          /\ result = Nil <=> received = JobComplete
          /\ IsJobFailedError(result) <=> received = JobFailed
          /\ received = JobFailed =>
                result = <<[kind |-> "JobFailedError", text |-> "",
                            ns |-> job.Namespace, name |-> job.Name]>>
    /\ pc = "rj_ret" =>
          /\ IsJobFailedError(rjResult) <=> received = JobFailed
          /\ received = JobFailed =>
                \E i \in 1..Len(rjResult) :
                   rjResult[i] = [kind |-> "JobFailedError", text |-> "",
                                  ns |-> job.Namespace, name |-> job.Name]
          /\ rjResult = Nil <=> received = JobComplete

C1_Witness ==
    /\ pc = "rj_ret"
    /\ received = JobFailed
    /\ secretEnv
    /\ IsJobFailedError(rjResult)
    /\ Len(rjResult) = 3

\* C2: the tracker puts a terminal outcome up for sending on finishedCh at
\* most once per run, whatever Updated notifications follow.
C2_AtMostOneSend == Len(jobEmitted) <= 1

\* C3: once the context is cancelled while WaitForJob is in its select,
\* WaitForJob eventually returns (which needs both Shutdown calls, the loop
\* and every Tail to have returned).
C3_CancelledWaitReturns == (ctxDone /\ pc = "wfj_select") ~> WaitForJobReturned

\* C4: after WaitForJob has received the terminal outcome its teardown
\* completes and WaitForJob returns.
C4_TeardownAfterOutcomeCompletes == (received # "none") ~> WaitForJobReturned

\* C5: nothing is sent on containerStartedCh or jobFinishedCh after it has
\* been closed, and once the Shutdown calls of both informers have returned no
\* handler holds or produces an event or outcome.
C5_NoSendAfterClose ==
    /\ ~panicked
    /\ containerStartedChClosed => podH.pc = "idle"
    /\ jobFinishedChClosed => jobH.pc = "idle"
    /\ PastInformerWait \/ WaitForJobReturned =>
          /\ jobInf # "running" /\ podInf # "running"
          /\ podH.pc = "idle" /\ jobH.pc = "idle"

C5_Witness ==
    /\ containerStartedChClosed /\ jobFinishedChClosed
    /\ jobInf = "stopped" /\ podInf = "stopped"
    /\ Len(tails) > 0
    /\ Len(jobEmitted) > 0

\* C6: on every return path the teardown runs in the order: stopCh closed,
\* both Shutdown calls returned, both event channels closed, the loop and
\* every Tail exited, WaitForJob returns.
C6_TeardownOrder ==
    /\ jobInf = "stopped" \/ podInf = "stopped" => stopChClosed
    /\ containerStartedChClosed \/ jobFinishedChClosed =>
          stopChClosed /\ jobInf # "running" /\ podInf # "running"
    /\ loop = "exited" => containerStartedChClosed
    /\ WaitForJobReturned => TornDown

C6_Witness ==
    /\ pc = "wfj_ret"
    /\ jobInf = "stopped" /\ podInf = "stopped"
    /\ Len(tails) > 0

\* C7: when WaitForJob leaves its select without having received an outcome
\* it returns the context's error, which is not nil and no JobFailedError,
\* and it returns only after the whole teardown.
C7_CancelReturnsCtxErr ==
    WaitForJobReturned /\ jobInf # "none" /\ received = "none" =>
        /\ ctxDone
        /\ result = ContextCanceled
        /\ result # Nil /\ ~IsJobFailedError(result)
        /\ TornDown

C7_Witness ==
    /\ pc = "wfj_ret"
    /\ jobInf = "stopped"
    /\ received = "none"
    /\ Len(tails) > 0

\* C8: when the context is already cancelled as the select of WaitForJob is
\* evaluated, WaitForJob returns the cancellation error.
C8_CancellationWins ==
    [][(pc = "wfj_select" /\ ctxDone /\ pc' # "wfj_select") => result' = ContextCanceled]_vars

\* C9: a Job first seen (OnAdd) with a true Complete or Failed condition has
\* that outcome put up for sending.
C9_AddedTerminalEmitted ==
    [][(jobLast.kind = "none" /\ jobLast'.kind = "Added" /\ jobLast'.terminal # {})
          => (jobH'.pc = "send" /\ jobH'.val \in jobLast'.terminal)]_vars

\* C10: every Updated snapshot that carries a Complete or Failed condition
\* with status True has that condition's type put up for sending.
C10_UpdatedTerminalEmitted ==
    [][(nJobUpd' # nJobUpd /\ jobLast'.terminal # {})
          => (jobH'.pc = "send" /\ jobH'.val \in jobLast'.terminal)]_vars

\* The state of a container as a snapshot shows it: a container without a
\* status or without a state counts as waiting.
ObservedState(status) == IF status \in {"Running", "Terminated"} THEN status ELSE "Waiting"

\* The number of events of one Updated notification that name container c.
EventsFor(sent, c) == Cardinality({ i \in 1..Len(sent) : sent[i].ContainerName = c })

\* C11: for every Updated Pod notification and every container, exactly one
\* ContainerStartedEvent (with the Pod's namespace and name) is sent when the
\* container's state goes Waiting->Running, Waiting->Terminated or
\* Terminated->Running and none otherwise; so the snapshots Waiting, Running,
\* Terminated, Running of a container give one event at each Running and none
\* at Terminated.
C11_EventPerStart ==
    [][Len(podTrace') > Len(podTrace) /\ Len(podTrace) > 0 =>
         LET old == podTrace[Len(podTrace)]
             new == podTrace'[Len(podTrace')]
             sent == podEvents'[Len(podEvents')]
         IN /\ \A c \in TrackerContainerNames :
                  EventsFor(sent, c) =
                     IF <<ObservedState(old[c]), ObservedState(new[c])>> \in
                           { <<"Waiting", "Running">>, <<"Waiting", "Terminated">>,
                             <<"Terminated", "Running">> }
                       THEN 1 ELSE 0
            /\ \A i \in 1..Len(sent) :
                  /\ sent[i].Namespace = TrackerNamespace
                  /\ sent[i].PodName = PodName
            /\ \A c \in TrackerContainerNames :
                  ( /\ Len(podTrace') = 4
                    /\ [i \in 1..4 |-> podTrace'[i][c]] =
                          <<"Waiting", "Running", "Terminated", "Running">> )
                  => [i \in 1..3 |-> EventsFor(podEvents'[i], c)] = <<1, 0, 1>>]_vars

C11_Witness ==
    /\ Len(podTrace) = 4
    /\ [i \in 1..4 |-> podTrace[i]["init"]] = <<"Waiting", "Running", "Terminated", "Running">>
    /\ [i \in 1..3 |-> EventsFor(podEvents[i], "init")] = <<1, 0, 1>>
    /\ podTrace[1]["app"] = Absent /\ podTrace[2]["app"] = "Terminated"
    /\ EventsFor(podEvents[1], "app") = 1

\* C12: for every container that a Pod snapshot given to the pods handler
\* (Added or Updated) shows as Running or Terminated, a Tail for that container
\* is eventually started.
C12_StartedContainerTailed ==
    \A c \in ContainerNames :
       (podSeen /\ podStatus[c] \in {"Running", "Terminated"})
          ~> (\E i \in 1..Len(tails) : tails[i].ev.ContainerName = c)

\* C13: Tail returns exactly when a call of t.resume ends with a clean end of
\* stream, a not-found error or a cancellation error; after any other error
\* it sleeps and then calls t.resume again, which opens the stream with the
\* cursor as it then is.
C13_ReturnOrRetry ==
    [][/\ tailPc' = "returned" <=> resumeErr' \in {"eof", "notfound", "canceled"}
       /\ tailPc' = "sleep" => resumeErr' = "error"
       /\ resumeErr' = "error" => tailPc' \in {"sleep", "resume"}
       /\ (tailPc = "sleep" /\ tailPc' # "sleep") =>
              tailPc' = "resume" /\ lastLogTime' = lastLogTime
       /\ (tailPc = "resume" /\ tailPc' # "resume") =>
              /\ sinceTime' = lastLogTime
              /\ nResume' = IF ctxDone THEN nResume ELSE nResume + 1]_vars

C13_Witness ==
    /\ tailPc = "returned"
    /\ resumeErr = "canceled"
    /\ nResume = 2
    /\ Len(sink) > 0

\* The string is a timestamp, a space and a text that is not blank.
Stamped(str) ==
    /\ Len(str) >= 3
    /\ str[1].c = "stamp" /\ str[2].c = " "
    /\ \E k \in 3..Len(str) : str[k].c \notin {" ", "LF"}

\* Every line of the log carries a timestamp that parses.
AllLinesStamped == \A k \in 1..Len(containerLog) : Stamped(containerLog[k].line)

\* C14: when every line of the log carries its timestamp, a stream reopened
\* after a retryable error starts strictly after the last forwarded timestamp,
\* so no timestamped line is given to the sink twice and the records arrive
\* in the order of their timestamps.
C14_NoDuplicateOnResume ==
    AllLinesStamped =>
       \A i, j \in 1..Len(sink) :
          i < j => sink[i].RawTimestamp[1].t < sink[j].RawTimestamp[1].t

\* The line read has no timestamp that parses.
LineUnstamped == line # <<>> /\ ~Stamped(line)

\* C15: giving the sink a line whose timestamp cannot be parsed leaves the
\* cursor t.lastLogTime as it was before the line.
C15_UnparsedKeepsCursor ==
    [][(tailPc = "advance" /\ LineUnstamped) => lastLogTime' = lastLogTime]_vars

\* The line read without its trailing newline and spaces.
LineTrimmed ==
    LET last == CHOOSE i \in 0..Len(line) :
                   /\ \A k \in (i + 1)..Len(line) : line[k].c \in {" ", "LF"}
                   /\ i > 0 => line[i].c \notin {" ", "LF"}
    IN [k \in 1..last |-> line[k]]

\* C16: a line without a timestamp that parses is given to the sink as one
\* record with an empty RawTimestamp and the whole trimmed line as Message; it
\* is not skipped, and it neither ends the read loop nor makes Tail retry.
C16_UnparsedForwardedWhole ==
    [][/\ (tailPc = "read" /\ stream' # stream) => line' # <<>> /\ tailPc' = "handle"
       /\ (tailPc = "handle" /\ tailPc' # "handle" /\ LineUnstamped) =>
             /\ sink' = Append(sink, [RawTimestamp |-> <<>>, Namespace |-> "ns1",
                                      PodName |-> "pod-1", ContainerName |-> "app",
                                      Message |-> LineTrimmed])
       /\ (tailPc = "handle" /\ LineUnstamped) => tailPc' \in {"handle", "advance"}
       /\ (tailPc = "advance" /\ tailPc' # "advance" /\ LineUnstamped /\ readErr = "nil") =>
             tailPc' = "read" /\ resumeErr' = resumeErr]_vars

C16_Witness ==
    /\ tailPc = "returned"
    /\ resumeErr = "eof"
    /\ nResume = 1
    /\ Len(sink) = 3
    /\ sink[1].RawTimestamp = <<>> /\ sink[1].Message = <<[c |-> "m", t |-> 1]>>
    /\ sink[2].RawTimestamp = <<>> /\ Len(sink[2].Message) = 3
    /\ sink[3].RawTimestamp = <<>> /\ sink[3].Message = <<[c |-> "stamp", t |-> 3]>>

\* The lines in a string of bytes read from a stream.
NumLines(bytes) ==
    Cardinality({ i \in 1..Len(bytes) : bytes[i].c = "LF" })
    + (IF bytes # <<>> /\ bytes[Len(bytes)].c # "LF" THEN 1 ELSE 0)

\* C17: within one stream the records given to the sink are the lines read
\* so far, one record per line in the order of the stream, the final line
\* without a newline included; and the cursor holds a timestamp only after the
\* record with that timestamp has been given to the sink.
C17_EachLineOnceInOrder ==
    LET consumed == SubSeq(opened, 1, Len(opened) - Len(stream))
        first == IF sinceTime = 0 THEN 1 ELSE sinceTime
        forwarded == Len(sink) - sinkAtOpen
    IN /\ forwarded = NumLines(consumed) - (IF tailPc = "handle" THEN 1 ELSE 0)
       /\ \A i \in 1..forwarded :
             \E k \in 1..Len(sink[sinkAtOpen + i].Message) :
                sink[sinkAtOpen + i].Message[k].t = first + i - 1
       /\ lastLogTime # 0 =>
             \E i \in 1..Len(sink) :
                sink[i].RawTimestamp = <<[c |-> "stamp", t |-> lastLogTime]>>

C17_Witness ==
    /\ tailPc = "returned"
    /\ resumeErr = "eof"
    /\ nResume = 1
    /\ Len(sink) = 3
    /\ containerLog[3].line[Len(containerLog[3].line)].c # "LF"
    /\ lastLogTime = 3

\* C18: the process exits with status 0 exactly when WaitForJob received the
\* outcome Complete, and with status 1 when it received Failed, when the wait
\* ended by cancellation, and when the CronJob, the Secret, the Job or an
\* informer could not be set up.
C18_ExitStatus ==
    pc = "exited" =>
       /\ exitStatus \in {0, 1}
       /\ exitStatus = 0 <=> received = JobComplete
       /\ received = JobFailed => exitStatus = 1
       /\ (loop # "none" /\ received = "none") => exitStatus = 1
       /\ loop = "none" => exitStatus = 1

C18_Witness ==
    /\ pc = "exited"
    /\ exitStatus = 1
    /\ received = "none"
    /\ ctxDone
    /\ jobInf = "stopped"
    /\ secretEnv

\* WaitForJob is leaving with the error of an informer that could not be
\* started.
InformerStartFailed == pc = "wfj_defer" /\ result # <<>> /\ result[1].kind = "errorString"

\* C19: when an informer cannot be started, WaitForJob returns its error:
\* the teardown of what was already started completes without waiting for
\* the Job or its containers to finish.
C19_SetupErrorReturns == InformerStartFailed ~> WaitForJobReturned

\* C20: in the Spec of the Job built from the CronJob every container of the
\* pod template, init containers included, has each key of Env with its
\* value in its env list.
C20_EnvInAllContainers ==
    newSpec # NoJobSpec =>
       \A list \in {newSpec.Containers, newSpec.InitContainers} :
          \A k \in 1..Len(list) :
             \A name \in DOMAIN env :
                \E i \in 1..Len(list[k].Env) :
                   list[k].Env[i] = [Name |-> name, Value |-> env[name]]

InjectedEnv ==
    { [Name |-> name, Value |-> env[name]] : name \in DOMAIN env } \cup
    { [Name |-> optsSecretEnv[i],
       SecretKeyRef |-> [LocalObjectReference |-> OptsSecret, Key |-> optsSecretEnv[i]]] :
         i \in 1..Len(optsSecretEnv) }

\* C22: the Job built from a CronJob has the CronJob's namespace, the
\* CronJob's name followed by "-" as generateName, exactly one owner reference
\* (batch/v1, CronJob, the CronJob's name and UID, controller true), the labels
\* and annotations of the job template, and the template's spec apart from the
\* injected env entries.
C22_JobFromCronJob ==
    [][jobToCreate' # jobToCreate =>
         /\ jobToCreate'.Namespace = cronJob.Namespace
         /\ Len(jobToCreate'.GenerateName) = Len(cronJob.Name) + 1
         /\ SubSeq(jobToCreate'.GenerateName, 1, Len(cronJob.Name)) = cronJob.Name
         /\ jobToCreate'.GenerateName[Len(cronJob.Name) + 1] = "-"
         /\ jobToCreate'.OwnerReferences =
               <<[APIVersion |-> "batch/v1", Kind |-> "CronJob", Name |-> cronJob.Name,
                  UID |-> cronJob.UID, Controller |-> TRUE]>>
         /\ jobToCreate'.Labels = cronJob.TemplateLabels
         /\ jobToCreate'.Annotations = cronJob.TemplateAnnotations
         /\ jobToCreate'.Spec.InitContainers = jobSpec.InitContainers
         /\ Len(jobToCreate'.Spec.Containers) = Len(jobSpec.Containers)
         /\ \A k \in 1..Len(jobSpec.Containers) :
               LET old == jobSpec.Containers[k].Env
                   new == jobToCreate'.Spec.Containers[k].Env
               IN /\ jobToCreate'.Spec.Containers[k].Name = jobSpec.Containers[k].Name
                  /\ Len(new) >= Len(old)
                  /\ SubSeq(new, 1, Len(old)) = old
                  /\ \A i \in (Len(old) + 1)..Len(new) : new[i] \in InjectedEnv]_vars

C22_Witness ==
    /\ jobToCreate.Namespace = "ns2"
    /\ jobToCreate.GenerateName = <<"c", "-", "-">>
    /\ Len(jobToCreate.OwnerReferences) = 1
    /\ jobToCreate.Labels = [key \in {"my/key"} |-> "foo"]
    /\ jobToCreate.Annotations = [key \in {"my/key"} |-> "bar"]
    /\ cronJob.Labels = [key \in {"my/key"} |-> "own"]
    /\ Len(jobToCreate.Spec.Containers) = 2
    /\ Len(jobToCreate.Spec.InitContainers) = 1
    /\ Len(jobToCreate.Spec.Containers[1].Env) = 4
    /\ DOMAIN env = {"FOO"}
    /\ optsSecretEnv = <<"SEC", "TOK">>

\* C23: the default sink writes one line per record: what it writes for a
\* record ends with a line terminator, and the output of the records handled
\* so far has as many line terminators as there are records, so that two
\* consecutive records are two separate lines.
C23_OneLinePerRecord ==
    /\ \A i \in 1..Len(sink) :
          LET out == Handle(sink[i]) IN out[Len(out)] = Newline
    /\ Cardinality({k \in 1..Len(Stdout(sink)) : Stdout(sink)[k] = Newline}) = Len(sink)

\* C24: a container without an entry in the old snapshot is treated as
\* Waiting: one ContainerStartedEvent is sent for it when the new snapshot
\* shows it Running or Terminated, none when it shows it Waiting or with no
\* state set, and in every case what is sent is what would be sent had the old
\* snapshot shown it Waiting; a container without an entry in the new snapshot
\* never gets an event.
C24_AbsentIsWaiting ==
    [][Len(podTrace') = 2 /\ Len(podTrace) = 1 =>
         LET old == podTrace'[1]
             new == podTrace'[2]
             sent == podEvents'[1]
         IN \A c \in TrackerContainerNames :
               /\ (old[c] = "Absent" /\ new[c] \in {"Running", "Terminated"}) =>
                      EventsFor(sent, c) = 1
               /\ (old[c] = "Absent" /\ new[c] \in {"Waiting", "Unset"}) =>
                      EventsFor(sent, c) = 0
               /\ old[c] = "Absent" =>
                      sent = OnUpdateEvents(TrackerNamespace, TrackerInitContainers,
                                            TrackerContainers,
                                            [old EXCEPT ![c] = "Waiting"], new)
               /\ new[c] = "Absent" => EventsFor(sent, c) = 0]_vars

C24_Witness ==
    /\ Len(podTrace) = 2
    /\ podTrace[1]["app"] = "Absent" /\ podTrace[2]["app"] = "Terminated"
    /\ podTrace[1]["init"] = "Terminated" /\ podTrace[2]["init"] = "Absent"
    /\ EventsFor(podEvents[1], "app") = 1
    /\ EventsFor(podEvents[1], "init") = 0

\* The old/new state pairs of a container under which the start rule sends
\* an event.
StartPairs ==
    { <<"Waiting", "Running">>, <<"Waiting", "Terminated">>, <<"Terminated", "Running">> }

\* C25: in one Updated notification the init container gets a
\* ContainerStartedEvent under exactly the old/new state pairs under which the
\* regular container gets one: each gets one event when its pair is a start
\* pair and none otherwise, so equal pairs give equal numbers of events.
C25_InitRuleIsRegularRule ==
    [][Len(podTrace') = 2 /\ Len(podTrace) = 1 =>
         LET old == podTrace'[1]
             new == podTrace'[2]
             sent == podEvents'[1]
             pair(c) == <<ObservedState(old[c]), ObservedState(new[c])>>
         IN /\ \A c \in TrackerContainerNames :
                  EventsFor(sent, c) = 1 <=> pair(c) \in StartPairs
            /\ \A c \in TrackerContainerNames : EventsFor(sent, c) \in {0, 1}
            /\ pair("init") = pair("app") =>
                  EventsFor(sent, "init") = EventsFor(sent, "app")]_vars

C25_Witness ==
    /\ Len(podTrace) = 2
    /\ podTrace[1] = [c \in TrackerContainerNames |-> "Terminated"]
    /\ podTrace[2] = [c \in TrackerContainerNames |-> "Running"]
    /\ Len(podEvents[1]) = 2
    /\ podEvents[1][1].ContainerName = "init"
    /\ podEvents[1][2].ContainerName = "app"

JobUpdateHandled == notified'.called /\ ~notified.called

\* The status of the condition of type t in a list, "" when it has none.
StatusOf(conditions, t) ==
    IF \E i \in 1..Len(conditions) : conditions[i].Type = t
      THEN conditions[CHOOSE i \in 1..Len(conditions) : conditions[i].Type = t].Status
      ELSE ""

\* The types of the conditions of a list that have status True.
TrueTypes(conditions) ==
    { t \in JobConditionTypes : StatusOf(conditions, t) = ConditionTrue }

\* The type of the first condition of a list that has status True, "" when
\* none has.
FirstTrueType(conditions) ==
    IF TrueTypes(conditions) = {} THEN ""
    ELSE conditions[CHOOSE i \in 1..Len(conditions) :
                      /\ conditions[i].Status = ConditionTrue
                      /\ \A k \in 1..(i - 1) : conditions[k].Status # ConditionTrue].Type

\* C27: the outcome the tracker emits for an old/new pair of Job snapshots is
\* the same in every run: whatever the order in which the changed conditions
\* are visited, the type sent is the one that was sent, also when Complete and
\* Failed are both True or both turn True in the same update.
C27_OutcomeDeterministic ==
    [][JobUpdateHandled =>
         /\ notified'.sends = OnUpdateSends(newConditions)
         /\ \A order \in RangeOrders(notified'.changed) :
               notifyFinished(oldConditions, newConditions, order) = notified'.finished]_vars

C29_ChangedToTrue ==
    [][JobUpdateHandled =>
         \A t \in JobConditionTypes :
            /\ t \in DOMAIN notified'.changed <=>
                  /\ StatusOf(newConditions, t) = "True"
                  /\ StatusOf(oldConditions, t) # StatusOf(newConditions, t)
            /\ t \in DOMAIN notified'.changed =>
                  notified'.changed[t] = [Type |-> t, Status |-> "True"]]_vars

C29_Witness ==
    /\ notified.called
    /\ oldConditions = <<[Type |-> "Complete", Status |-> "True"]>>
    /\ newConditions = <<[Type |-> "Complete", Status |-> "True"],
                         [Type |-> "Failed", Status |-> "True"]>>
    /\ DOMAIN notified.changed = {"Failed"}

\* C30: findChangedCondition returns the first true condition of the new
\* snapshot, without failing, when the old snapshot has no true condition or
\* has one of another type, and returns none when both snapshots have a true
\* condition of the same type.
C30_FirstTransitionReported ==
    [][JobUpdateHandled =>
         LET oldType == FirstTrueType(oldConditions)
             newType == FirstTrueType(newConditions)
             got == notified'.changedCondition
         IN /\ (newType # "" /\ oldType # newType) =>
                  got = [kind |-> "condition",
                         condition |-> [Type |-> newType, Status |-> "True"]]
            /\ (newType # "" /\ oldType = newType) => got = [kind |-> "nil"]]_vars

\* C31: once the context is done, by cancellation or by the expiry of its
\* deadline, a stream that Tail opens delivers nothing, so no record of a
\* newly opened stream reaches the sink, and Tail eventually returns, wherever
\* it was: reading, sleeping before a retry, or about to open a stream.
C31_DoneContextEndsTail ==
    /\ [][(ctxDone /\ tailPc = "resume" /\ tailPc' # "resume") =>
             opened' = <<>> /\ tailPc' # "read"]_vars
    /\ \A at \in {"resume", "read", "sleep"} :
          (ctxDone /\ tailPc = at) ~> (tailPc = "returned")

\* C32: the cursor t.lastLogTime of one Tail never decreases and, once set,
\* never becomes nil again, whatever lines are read and however often the
\* stream is reopened.
C32_CursorHighWaterMark ==
    [][/\ lastLogTime # NilTime => lastLogTime' # NilTime
       /\ lastLogTime' >= lastLogTime]_vars

\* C33: a line whose text before the first space is an RFC3339 timestamp is
\* given to the sink with that text as RawTimestamp and the rest of the line,
\* without its trailing whitespace, as Message, also when the rest is empty or
\* only whitespace.
C33_StampedLineSplit ==
    [][(/\ tailPc = "handle" /\ tailPc' # "handle"
        /\ Len(line) >= 2 /\ line[1].c = "stamp" /\ line[2] = Space) =>
          /\ Len(sink') = Len(sink) + 1
          /\ sink'[Len(sink')].RawTimestamp = <<line[1]>>
          /\ sink'[Len(sink')].Message = TrimRightFunc(SubSeq(line, 3, Len(line)))]_vars

\* C34: with SecretEnv set, the Job is created only after the Secret, the
\* owner reference is applied only after the Job was created, and WaitForJob
\* begins only after the owner reference was applied; a delete is issued only
\* when the teardown of a WaitForJob that was called has completed; and when
\* runJobFromCronJobWithSecret has returned after it created the Secret,
\* exactly one delete was issued, for that Secret.
C34_SecretLifecycle ==
    /\ [][secretEnv =>
             /\ job' # job => secret.state = "created"
             /\ (secret'.state = "owned" /\ secret.state # "owned") => job # NoJob
             /\ (loop = "none" /\ loop' # "none") => secret.state = "owned"
             /\ secret'.deletes # secret.deletes => (loop # "none" => TornDown)]_vars
    /\ []((secretEnv /\ pc \in {"rj_ret", "exited"} /\ secret.state # "none") =>
            /\ Len(secret.deletes) = 1
            /\ secret.deletes[1].name = "cj-s1")

\* C38: the delete of the Secret is issued with a context that is not
\* cancelled, also when the run was cancelled after the Secret was created.
C38_CleanupContextAlive ==
    \A i \in 1..Len(secret.deletes) : ~secret.deletes[i].ctxDone

\* ------------------------------------------------------- RunJob (variant)
\* The earlier RunJob creates the Job itself and then waits in the same
\* function. Its teardown is a list of separate defer statements, which run
\* in the reverse of the order they were written in.
RunJobDeferred ==
    <<"close(containerStartedCh)", "close(stopCh)", "close(jobFinishedCh)",
      "backgroundWaiter.Wait">>

\* wait.Group.Wait of backgroundWaiter: the loop, every Tail and every started
\* Shutdown have returned.
BackgroundWaiterDone == InformerWaiterDone /\ ContainerLoggerWaiterDone

RunJobInit ==
    /\ secretEnv = FALSE
    /\ secret = [state |-> "none", name |-> "", deletes |-> <<>>]
    /\ pc = "rj_create"
    /\ td = 0
    /\ job = NoJob
    /\ result = Nil
    /\ rjResult = Nil
    /\ ctxDone = FALSE
    /\ stopChClosed = FALSE
    /\ containerStartedChClosed = FALSE
    /\ jobFinishedChClosed = FALSE
    /\ panicked = FALSE
    /\ jobInf = "none"
    /\ podInf = "none"
    /\ jobSeen = FALSE
    /\ podSeen = FALSE
    /\ podStatus = AllWaiting
    /\ jobH = IdleJobH
    /\ podH = IdlePodH
    /\ loop = "none"
    /\ tails = <<>>
    /\ nJobUpd = 0
    /\ nPodUpd = 0
    /\ received = "none"
    /\ jobEmitted = <<>>
    /\ jobLast = NoNotification
    /\ exitStatus = -1
    /\ TrackerIdle
    /\ TailerIdle
    /\ CreateIdle
    /\ JobUpdateIdle

\* clientset.BatchV1().Jobs(job.Namespace).Create; on an error RunJob returns
\* before any defer statement was reached.
RunJobCreate ==
    /\ pc = "rj_create"
    /\ \/ /\ ~ctxDone
          /\ \E j \in Jobs : job' = j
          /\ pc' = "wfj_begin"
          /\ UNCHANGED result
       \/ /\ result' = Errorf("could not create a Job", ApiError)
          /\ pc' = "wfj_ret"
          /\ UNCHANGED job
    /\ UNCHANGED <<componentVars, exitStatus, secretEnv, secret, td, rjResult, ctxDone, chanVars,
                   panicked, jobInfVars, podInfVars, loop, tails, received, jobLast>>

\* The deferred statements of RunJob, one per step.
RunJobTeardown ==
    /\ pc = "wfj_defer"
    /\ LET stmt == RunJobDeferred[td] IN
       /\ stmt = "backgroundWaiter.Wait" => BackgroundWaiterDone
       /\ stopChClosed' = (stopChClosed \/ stmt = "close(stopCh)")
       /\ containerStartedChClosed' =
              (containerStartedChClosed \/ stmt = "close(containerStartedCh)")
       /\ jobFinishedChClosed' = (jobFinishedChClosed \/ stmt = "close(jobFinishedCh)")
    /\ IF td = Len(RunJobDeferred)
         THEN pc' = "wfj_ret" /\ td' = 0
         ELSE pc' = pc /\ td' = td + 1
    /\ UNCHANGED <<componentVars, exitStatus, secretEnv, secret, job, result, rjResult, ctxDone,
                   panicked, jobInfVars, podInfVars, loop, tails, received, jobLast>>

RunJobNext ==
    \/ Cancel
    \/ RunJobCreate
    \/ BeginWaitForJob
    \/ StartPodInformer
    \/ StartJobInformer
    \/ SelectCtxDone
    \/ RunJobTeardown
    \/ JobOnAdd
    \/ JobOnUpdate
    \/ SendJobFinished
    \/ JobInformerShutdown
    \/ PodOnAdd
    \/ PodOnUpdate
    \/ SendContainerStarted
    \/ PodInformerShutdown
    \/ LoopExit
    \/ \E i \in TailIds : TailResume(i)
    \/ \E i \in TailIds : TailWake(i)

RunJobSpec == RunJobInit /\ [][RunJobNext]_vars

\* C35: in the RunJob variant no handler sends on containerStartedCh or on
\* jobFinishedCh after the channel was closed (such a send panics), on every
\* return path.
C35_RunJobNoSendAfterClose == ~panicked


\* C36: an Updated Pod notification whose old and new snapshots show the same
\* state for every container sends no ContainerStartedEvent, however many
\* times the snapshot is delivered again.
C36_SameStateNoEvent ==
    \A k \in 1..Len(podEvents) :
       (\A c \in TrackerContainerNames :
           ObservedState(podTrace[k][c]) = ObservedState(podTrace[k + 1][c]))
          => podEvents[k] = <<>>

C36_Witness ==
    /\ Len(podEvents) = MaxTrackerUpdates
    /\ podTrace[1] = [c \in TrackerContainerNames |-> "Waiting"]
    /\ podTrace[2] = [c \in TrackerContainerNames |->
                         IF c = "init" THEN "Terminated" ELSE "Running"]
    /\ \A k \in 3..Len(podTrace) : podTrace[k] = podTrace[2]
    /\ Len(podEvents[1]) = 2
    /\ \A k \in 2..Len(podEvents) : podEvents[k] = <<>>


\* C37: at most one Tail is active for a (namespace, pod, container) at any
\* time: when the range loop has started a Tail for a later event of the same
\* container, the Tail started for the earlier event has returned.
C37_OneTailerPerContainer ==
    \A i, k \in 1..Len(tails) :
       (i < k /\ tails[i].ev = tails[k].ev) => tails[i].st = "returned"

====
